---- MODULE Spec2Model ----
(***************************************************************************)
(* Subtract Square (src/game_state.py): the GameState base class, the      *)
(* SubtractSquareGameState subclass and the console game loop of the       *)
(* __main__ block.                                                         *)
(*                                                                         *)
(* Objects live in `heap`, a sequence of records indexed by object         *)
(* identity; a constructor call appends a record.  A GameState object has  *)
(* the attribute p1_turn, a SubtractSquareGameState object has p1_turn and *)
(* current_value.  Methods are operators over the record of `self`; a      *)
(* method that raises is described by an Exc_ operator that names the      *)
(* exception (NoExc when it returns).                                      *)
(*                                                                         *)
(* The specifications share the variables:                                 *)
(*   Spec      the __main__ block as written (start value 10);             *)
(*   SpecPlay  the same game loop started from any state with              *)
(*             0 <= current_value <= MaxValue;                             *)
(*   SpecPlayFair  SpecPlay with a player who enters integers and, sooner   *)
(*             or later, a valid move;                                     *)
(*   SpecRec   one call of rough_outcome() executed statement by statement  *)
(*             with its frames;                                            *)
(*   SpecApi   the module imported (the __main__ block does not run) and   *)
(*             the methods called in any order on the objects at hand;     *)
(*   SpecEq    the module imported, objects constructed independently and  *)
(*             their string forms taken.                                   *)
(***************************************************************************)
EXTENDS Integers, Sequences, FiniteSets, TLC

VARIABLES
    heap,                \* object identity -> attributes
    call,                \* the last method call: [op, self, args]
    result,              \* what the last call returned, by type (NoResult:
                         \* it returned None or raised)
    raised,              \* the exception the last call raised, or NoExc
    current_game_state,  \* __main__: the object the loop variable refers to
    pc,                  \* __main__: "loop", "done", "crashed"; "imported" when not run
    move,                \* __main__: <<m>>, the last integer read from input
                         \* (<<>> before the first read)
    printed,             \* __main__: the last line written to stdout
    stack                \* the frames of rough_outcome() in execution,
                         \* outermost first: [self, i, at]

vars == <<heap, call, result, raised, current_game_state, pc, move, printed,
          stack>>

\* ------------------------------------------------------------- bounds
MaxValue == 10
MaxObjects == 2

\* ---------------------------------------------------------- constants
WIN == 1
LOSE == -1
DRAW == 0

NoExc == ""

\* A returned value sits in the field of its type: a list of moves, a bool,
\* a number, an object (its identity, 0 for none) or a str.
NoResult == [list |-> <<>>, bool |-> FALSE, num |-> 0, obj |-> 0, str |-> ""]

\* The value the __main__ block starts from.
StartValue == 10

\* ------------------------------------------------------------ objects
\* GameState.__init__
GameState(is_p1_turn) ==
    [cls |-> "GameState", p1_turn |-> is_p1_turn]

\* SubtractSquareGameState.__init__
SubtractSquareGameState(is_p1_turn, current_value) ==
    [cls |-> "SubtractSquareGameState", p1_turn |-> is_p1_turn,
     current_value |-> current_value]

IsSubtractSquare(self) == self.cls = "SubtractSquareGameState"

\* ------------------------------------------------- string conversions
Digit == <<"0", "1", "2", "3", "4", "5", "6", "7", "8", "9">>

RECURSIVE NatToStr(_)
NatToStr(n) ==
    IF n < 10 THEN Digit[n + 1]
    ELSE NatToStr(n \div 10) \o Digit[(n % 10) + 1]

\* format() of an int inside an f-string: decimal digits, '-' when negative.
str_int(n) == IF n < 0 THEN "-" \o NatToStr(-n) ELSE NatToStr(n)

\* format() of a bool inside an f-string.
str_bool(b) == IF b THEN "True" ELSE "False"

\* ------------------------------------------------- GameState methods
get_current_player_name(self) == IF self.p1_turn THEN "p1" ELSE "p2"

\* int(current_value ** 0.5) for current_value >= 0.  The power is taken in
\* double precision; the conversion int -> double and the rounded root are
\* exact for every value below 2^52, which covers the whole integer range of
\* the model checker, so here the result is the integer square root.
int_sqrt(current_value) ==
    CHOOSE r \in 0..current_value :
        r * r <= current_value /\ (r + 1) * (r + 1) > current_value

\* A negative int to the power 0.5 is a complex number, and int() of a
\* complex raises TypeError; the base class raises NotImplementedError.
Exc_get_possible_moves(self) ==
    IF ~IsSubtractSquare(self) THEN "NotImplementedError"
    ELSE IF self.current_value < 0 THEN "TypeError"
    ELSE NoExc

\* Mutant: range(0, ...) in place of range(1, ...) makes 0 a move.
get_possible_moves_from_zero(self) ==
    [i \in 1..(int_sqrt(self.current_value) + 1) |-> (i - 1) * (i - 1)]

\* Mutant: range(1, int(...)) without the + 1 drops the largest square.
get_possible_moves_short(self) ==
    [i \in 1..(int_sqrt(self.current_value) - 1) |-> i * i]

\* [i * i for i in range(1, int(self.current_value ** 0.5) + 1)]
get_possible_moves(self) ==
    [i \in 1..int_sqrt(self.current_value) |-> i * i]

\* move in self.get_possible_moves()
Exc_is_valid_move(self) == Exc_get_possible_moves(self)

\* Mutant: a range test in place of the membership test.
is_valid_move_range(self, m) == 1 <= m /\ m <= self.current_value

is_valid_move(self, m) ==
    \E i \in 1..Len(get_possible_moves(self)) : get_possible_moves(self)[i] = m

Exc_make_move(self) ==
    IF ~IsSubtractSquare(self) THEN "NotImplementedError" ELSE NoExc

\* Mutant: the turn flag is passed on without the negation.
make_move_same_turn(self, m) ==
    SubtractSquareGameState(self.p1_turn, self.current_value - m)

\* Mutant: the move is added to the value.
make_move_add(self, m) ==
    SubtractSquareGameState(~self.p1_turn, self.current_value + m)

\* Mutant: the new value is kept from going below zero.
make_move_clamped(self, m) ==
    SubtractSquareGameState(~self.p1_turn,
        IF self.current_value - m < 0 THEN 0 ELSE self.current_value - m)

make_move(self, m) ==
    LET new_value == self.current_value - m
    IN  SubtractSquareGameState(~self.p1_turn, new_value)

\* Mutant: `raise NotImplemented`, which is a TypeError.
Exc_str_not_an_exception(self) ==
    IF ~IsSubtractSquare(self) THEN "TypeError" ELSE NoExc

Exc_str(self) ==
    IF ~IsSubtractSquare(self) THEN "NotImplementedError" ELSE NoExc

__str__(self) ==
    "Current value: " \o str_int(self.current_value)
        \o ", Player turn: " \o get_current_player_name(self)

Exc_repr(self) ==
    IF ~IsSubtractSquare(self) THEN "NotImplementedError" ELSE NoExc

\* Mutant: the representation leaves out whose turn it is.
repr_without_turn(self) ==
    "SubtractSquareGameState(current_value=" \o str_int(self.current_value) \o ")"

__repr__(self) ==
    "SubtractSquareGameState(p1_turn=" \o str_bool(self.p1_turn)
        \o ", current_value=" \o str_int(self.current_value) \o ")"

\* The first statement of rough_outcome calls get_possible_moves; every
\* state the recursion makes comes from a move of get_possible_moves, so its
\* value is >= 0 and no later call raises.
Exc_rough_outcome(self) == Exc_get_possible_moves(self)

\* Mutant: a full game-tree search, which answers LOSE when every move
\* leads to a state that is WIN for the opponent.
RECURSIVE rough_outcome_minimax(_)
rough_outcome_minimax(self) ==
    IF get_possible_moves(self) = <<>> THEN LOSE
    ELSE IF \E i \in 1..Len(get_possible_moves(self)) :
                rough_outcome_minimax(
                    SubtractSquareGameState(~self.p1_turn,
                        self.current_value - get_possible_moves(self)[i])) = LOSE
         THEN WIN
         ELSE IF \A i \in 1..Len(get_possible_moves(self)) :
                rough_outcome_minimax(
                    SubtractSquareGameState(~self.p1_turn,
                        self.current_value - get_possible_moves(self)[i])) = WIN
         THEN LOSE
         ELSE DRAW

\* Mutant: the comparison with LOSE is inverted.
RECURSIVE rough_outcome_inverted(_)
rough_outcome_inverted(self) ==
    IF get_possible_moves(self) = <<>> THEN LOSE
    ELSE IF \E i \in 1..Len(get_possible_moves(self)) :
                rough_outcome_inverted(
                    SubtractSquareGameState(~self.p1_turn,
                        self.current_value - get_possible_moves(self)[i])) # LOSE
         THEN WIN
         ELSE DRAW

RECURSIVE rough_outcome(_)
rough_outcome(self) ==
    IF get_possible_moves(self) = <<>> THEN LOSE
    ELSE IF \E i \in 1..Len(get_possible_moves(self)) :
                LET next_state == make_move(self, get_possible_moves(self)[i])
                IN  rough_outcome(next_state) = LOSE
         THEN WIN
         ELSE DRAW

\* str() of a list of ints: '[1, 4, 9]'.
RECURSIVE join_ints(_)
join_ints(xs) ==
    IF xs = <<>> THEN ""
    ELSE IF Len(xs) = 1 THEN str_int(xs[1])
    ELSE str_int(xs[1]) \o ", " \o join_ints(Tail(xs))

str_list(xs) == "[" \o join_ints(xs) \o "]"

\* --------------------------------------------------------- input sets
\* Integers a caller or the console may pass as a move: a negative number,
\* zero, every value up to MaxValue and one above it.
MoveInputs == (-1)..(MaxValue + 1)

\* Moves make_move is called with directly: every square within the bounds
\* and the kinds of invalid move, a negative number, zero and a non-square
\* (a square above current_value is invalid too).
MoveArgs == {-1, 0, 2} \cup {k * k : k \in {j \in 1..MaxValue : j * j <= MaxValue}}

Values == 0..MaxValue

SubtractSquareObjects ==
    {SubtractSquareGameState(p, v) : p \in BOOLEAN, v \in Values}

BaseObjects == {GameState(p) : p \in BOOLEAN}

Ids == 1..Len(heap)

\* ------------------------------------------- method calls (SpecApi)
Imported ==
    /\ current_game_state = 0
    /\ pc = "imported"
    /\ move = <<>>
    /\ printed = ""

Constructed ==
    /\ call = [op |-> "__init__", self |-> 1, args |-> <<>>]
    /\ result = NoResult
    /\ raised = NoExc
    /\ stack = <<>>

InitApi ==
    /\ \E o \in SubtractSquareObjects \cup BaseObjects : heap = <<o>>
    /\ Constructed
    /\ Imported

MainIdle == UNCHANGED <<current_game_state, pc, move, printed, stack>>

\* A call that only reads self: it returns `val` or raises `exc`.
Query(method, i, a, exc, val) ==
    /\ pc = "imported"
    /\ call' = [op |-> method, self |-> i, args |-> a]
    /\ raised' = exc
    /\ result' = IF exc = NoExc THEN val ELSE NoResult
    /\ heap' = heap
    /\ MainIdle

Call_get_possible_moves(i) ==
    Query("get_possible_moves", i, <<>>, Exc_get_possible_moves(heap[i]),
          [NoResult EXCEPT !.list = get_possible_moves(heap[i])])

Call_is_valid_move(i, m) ==
    Query("is_valid_move", i, <<m>>, Exc_is_valid_move(heap[i]),
          [NoResult EXCEPT !.bool = is_valid_move(heap[i], m)])

Call_rough_outcome(i) ==
    Query("rough_outcome", i, <<>>, Exc_rough_outcome(heap[i]),
          [NoResult EXCEPT !.num = rough_outcome(heap[i])])

Call_str(i) ==
    Query("__str__", i, <<>>, Exc_str(heap[i]),
          [NoResult EXCEPT !.str = __str__(heap[i])])

Call_repr(i) ==
    Query("__repr__", i, <<>>, Exc_repr(heap[i]),
          [NoResult EXCEPT !.str = __repr__(heap[i])])

Call_get_current_player_name(i) ==
    Query("get_current_player_name", i, <<>>, NoExc,
          [NoResult EXCEPT !.str = get_current_player_name(heap[i])])

\* Mutant: the move is applied to self in place and self is returned.
Call_make_move_in_place(i, m) ==
    /\ pc = "imported"
    /\ call' = [op |-> "make_move", self |-> i, args |-> <<m>>]
    /\ raised' = Exc_make_move(heap[i])
    /\ IF Exc_make_move(heap[i]) = NoExc
       THEN /\ heap' = [heap EXCEPT ![i] = make_move(heap[i], m)]
            /\ result' = [NoResult EXCEPT !.obj = i]
       ELSE /\ heap' = heap
            /\ result' = NoResult
    /\ MainIdle

\* make_move constructs a new object and returns it; self is only read.
Call_make_move(i, m) ==
    /\ pc = "imported"
    /\ call' = [op |-> "make_move", self |-> i, args |-> <<m>>]
    /\ raised' = Exc_make_move(heap[i])
    /\ IF Exc_make_move(heap[i]) = NoExc
       THEN /\ Len(heap) < MaxObjects
            /\ heap' = Append(heap, make_move(heap[i], m))
            /\ result' = [NoResult EXCEPT !.obj = Len(heap) + 1]
       ELSE /\ heap' = heap
            /\ result' = NoResult
    /\ MainIdle

NextApi ==
    \/ \E i \in Ids : Call_get_possible_moves(i)
    \/ \E i \in Ids, m \in MoveInputs : Call_is_valid_move(i, m)
    \/ \E i \in Ids, m \in MoveArgs : Call_make_move(i, m)
    \/ \E i \in Ids : Call_rough_outcome(i)
    \/ \E i \in Ids : Call_str(i)
    \/ \E i \in Ids : Call_repr(i)
    \/ \E i \in Ids : Call_get_current_player_name(i)

SpecApi == InitApi /\ [][NextApi]_vars

\* ------------------------------------- independent construction (SpecEq)
\* Values the constructor is called with.
ConstructorValues == (-1)..MaxValue

New(p, v) ==
    /\ pc = "imported"
    /\ Len(heap) < MaxObjects
    /\ heap' = Append(heap, SubtractSquareGameState(p, v))
    /\ call' = [op |-> "__init__", self |-> Len(heap) + 1, args |-> <<p, v>>]
    /\ result' = NoResult
    /\ raised' = NoExc
    /\ MainIdle

NextEq ==
    \/ \E p \in BOOLEAN, v \in ConstructorValues : New(p, v)
    \/ \E i \in Ids : Call_repr(i)
    \/ \E i \in Ids : Call_str(i)

SpecEq == InitApi /\ [][NextEq]_vars

\* ------------------------------------------------- the __main__ block
\* current_game_state = SubtractSquareGameState(True, 10); both prints.
Init ==
    /\ heap = <<SubtractSquareGameState(TRUE, StartValue)>>
    /\ current_game_state = 1
    /\ pc = "loop"
    /\ move = <<>>
    /\ printed = __str__(heap[1])
    /\ Constructed

\* The same block started from any state within the bounds.
InitPlay ==
    /\ \E o \in SubtractSquareObjects : heap = <<o>>
    /\ current_game_state = 1
    /\ pc = "loop"
    /\ move = <<>>
    /\ printed = __str__(heap[1])
    /\ Constructed

\* Mutant: the loop tests the range of the move itself instead of calling
\* is_valid_move.
LoopBody_range_test(m) ==
    /\ pc = "loop"
    /\ get_possible_moves(heap[current_game_state]) # <<>>
    /\ move' = <<m>>
    /\ IF 1 <= m /\ m <= heap[current_game_state].current_value
       THEN /\ heap' = Append(heap, make_move(heap[current_game_state], m))
            /\ current_game_state' = Len(heap) + 1
            /\ printed' = __str__(make_move(heap[current_game_state], m))
       ELSE /\ printed' = "Invalid move. Try again."
            /\ UNCHANGED <<heap, current_game_state>>
    /\ pc' = "loop"
    /\ UNCHANGED <<call, result, raised, stack>>

\* One pass of the loop body with the integer m read from input.  The object
\* the loop variable referred to before an accepted move stays in heap: heap
\* is also the sequence of states the game went through.
LoopBody(m) ==
    /\ pc = "loop"
    /\ get_possible_moves(heap[current_game_state]) # <<>>
    /\ move' = <<m>>
    /\ IF is_valid_move(heap[current_game_state], m)
       THEN /\ heap' = Append(heap, make_move(heap[current_game_state], m))
            /\ current_game_state' = Len(heap) + 1
            /\ printed' = __str__(make_move(heap[current_game_state], m))
       ELSE /\ printed' = "Invalid move. Try again."
            /\ UNCHANGED <<heap, current_game_state>>
    /\ pc' = "loop"
    /\ UNCHANGED <<call, result, raised, stack>>

\* The text read from input is no integer literal: int() raises ValueError
\* after the possible moves were printed, and the program ends.
InputNotInt ==
    /\ pc = "loop"
    /\ get_possible_moves(heap[current_game_state]) # <<>>
    /\ printed' = "Possible moves: "
                    \o str_list(get_possible_moves(heap[current_game_state]))
    /\ raised' = "ValueError"
    /\ pc' = "crashed"
    /\ UNCHANGED <<heap, call, result, current_game_state, move, stack>>

\* Mutant: the two announcements are swapped.
Announce_swapped ==
    /\ pc = "loop"
    /\ get_possible_moves(heap[current_game_state]) = <<>>
    /\ printed' = IF get_current_player_name(heap[current_game_state]) = "p1"
                  THEN "Player 1 wins!"
                  ELSE "Player 2 wins!"
    /\ pc' = "done"
    /\ UNCHANGED <<heap, call, result, raised, current_game_state, move,
                   stack>>

\* The loop condition fails; the winner is announced.
Announce ==
    /\ pc = "loop"
    /\ get_possible_moves(heap[current_game_state]) = <<>>
    /\ printed' = IF get_current_player_name(heap[current_game_state]) = "p1"
                  THEN "Player 2 wins!"
                  ELSE "Player 1 wins!"
    /\ pc' = "done"
    /\ UNCHANGED <<heap, call, result, raised, current_game_state, move,
                   stack>>

Next ==
    \/ \E m \in MoveInputs : LoopBody(m)
    \/ InputNotInt
    \/ Announce

Spec == Init /\ [][Next]_vars

SpecPlay == InitPlay /\ [][Next]_vars

\* A pass of the loop in which a move of get_possible_moves() is entered.
AcceptMove ==
    \E m \in MoveInputs :
        is_valid_move(heap[current_game_state], m) /\ LoopBody(m)

\* The game loop with a player who enters integers only.
NextInts ==
    \/ \E m \in MoveInputs : LoopBody(m)
    \/ Announce

\* The game loop with a player who enters integers only and, while a move
\* is possible, sooner or later a valid one; the program itself keeps
\* running, so the announcement follows the end of the loop.
SpecPlayFair ==
    /\ InitPlay
    /\ [][NextInts]_vars
    /\ WF_vars(AcceptMove)
    /\ WF_vars(Announce)

\* --------------------------- rough_outcome, statement by statement (SpecRec)
\* The interpreter's limit on nested calls (sys.getrecursionlimit() of an
\* unconfigured CPython): a call that would exceed it raises RecursionError.
\* Frames other than rough_outcome's own are not counted here, so the
\* interpreter gives up no later than this machine does.
RecursionLimit == 1000

\* A value whose recursion needs more frames than the interpreter allows.
DeepValue == RecursionLimit

RecValues == Values \cup {DeepValue}

InitRec ==
    /\ \E p \in BOOLEAN, v \in RecValues :
            heap = <<SubtractSquareGameState(p, v)>>
    /\ Constructed
    /\ Imported

Top == stack[Len(stack)]

TopSelf == heap[Top.self]

Frame(id) == [self |-> id, i |-> 0, at |-> "test"]

RecIdle == UNCHANGED <<current_game_state, pc, move, printed>>

\* `return val`: the frame is left and the caller, if any, goes on with the
\* comparison on line 132.
Return(val) ==
    /\ result' = [NoResult EXCEPT !.num = val]
    /\ stack' = IF Len(stack) = 1 THEN <<>>
                ELSE [SubSeq(stack, 1, Len(stack) - 1)
                        EXCEPT ![Len(stack) - 1].at = "ret"]
    /\ UNCHANGED <<heap, call, raised>>
    /\ RecIdle

\* rough_outcome() is called on the object at hand.
Rec_call ==
    /\ call.op = "__init__"
    /\ stack = <<>>
    /\ call' = [op |-> "rough_outcome", self |-> 1, args |-> <<>>]
    /\ stack' = <<Frame(1)>>
    /\ UNCHANGED <<heap, result, raised>>
    /\ RecIdle

\* Lines 126-127: no possible moves, return LOSE.
Rec_return_lose ==
    /\ stack # <<>>
    /\ Top.at = "test"
    /\ get_possible_moves(TopSelf) = <<>>
    /\ Return(LOSE)

\* Lines 126, 130: there are moves, the loop starts with the first.
Rec_for ==
    /\ stack # <<>>
    /\ Top.at = "test"
    /\ get_possible_moves(TopSelf) # <<>>
    /\ stack' = [stack EXCEPT ![Len(stack)].i = 1, ![Len(stack)].at = "for"]
    /\ UNCHANGED <<heap, call, result, raised>>
    /\ RecIdle

\* Lines 130-132: the next move is applied and rough_outcome() is called on
\* the new state.  Beyond the interpreter's limit the call raises
\* RecursionError, which no frame catches: the outermost call ends with it.
Rec_next_state ==
    /\ stack # <<>>
    /\ Top.at = "for"
    /\ Top.i <= Len(get_possible_moves(TopSelf))
    /\ heap' = Append(heap, make_move(TopSelf, get_possible_moves(TopSelf)[Top.i]))
    /\ IF Len(stack) < RecursionLimit
       THEN /\ stack' = Append([stack EXCEPT ![Len(stack)].at = "wait"],
                               Frame(Len(heap) + 1))
            /\ UNCHANGED <<result, raised>>
       ELSE /\ stack' = <<>>
            /\ raised' = "RecursionError"
            /\ result' = NoResult
    /\ call' = call
    /\ RecIdle

\* Lines 132-133: the new state is LOSE for the opponent, return WIN.
Rec_return_win ==
    /\ stack # <<>>
    /\ Top.at = "ret"
    /\ result.num = LOSE
    /\ Return(WIN)

\* Lines 132, 130: it is not; the loop goes on with the next move.
Rec_continue ==
    /\ stack # <<>>
    /\ Top.at = "ret"
    /\ result.num # LOSE
    /\ stack' = [stack EXCEPT ![Len(stack)].i = @ + 1, ![Len(stack)].at = "for"]
    /\ UNCHANGED <<heap, call, result, raised>>
    /\ RecIdle

\* Line 135: the loop is through, return DRAW.
Rec_return_draw ==
    /\ stack # <<>>
    /\ Top.at = "for"
    /\ Top.i > Len(get_possible_moves(TopSelf))
    /\ Return(DRAW)

NextRec ==
    \/ Rec_call
    \/ Rec_return_lose
    \/ Rec_for
    \/ Rec_next_state
    \/ Rec_return_win
    \/ Rec_continue
    \/ Rec_return_draw

\* The interpreter executes the call step after step.
SpecRec == InitRec /\ [][NextRec]_vars /\ WF_vars(NextRec)

\* ====================================================== properties
Returned(method) == call.op = method /\ raised = NoExc

Self == heap[call.self]

\* The rules of Subtract Square, stated on integers: a legal move from a
\* total v is a positive perfect square not above v.
IsSquare(n) == \E k \in 1..n : k * k = n

LegalMoves(v) == {n \in 1..v : IsSquare(n)}

C2_MakeMoveSubtractsAndFlips ==
    (Returned("make_move") /\ Self.current_value >= 0
        /\ call.args[1] \in LegalMoves(Self.current_value)) =>
        /\ heap[result.obj].current_value = Self.current_value - call.args[1]
        /\ heap[result.obj].p1_turn = ~Self.p1_turn

C2_Witness ==
    /\ Returned("make_move")
    /\ Self.current_value = 10
    /\ call.args = <<9>>
    /\ heap[result.obj] = SubtractSquareGameState(~Self.p1_turn, 1)

\* C5: for a state with current_value >= 0 and any integer v, negative, zero,
\* non-square or above current_value included, is_valid_move(v) is true
\* exactly when v is a member of get_possible_moves().
C5_ValidIffPossible ==
    Returned("is_valid_move") =>
        (result.bool <=> \E i \in 1..Len(get_possible_moves(Self)) :
                        get_possible_moves(Self)[i] = call.args[1])

C5_Witness ==
    /\ Returned("is_valid_move")
    /\ Self.current_value = 3
    /\ call.args = <<4>>
    /\ result.bool = FALSE

\* The value R of C6, by recursion on the total.
RECURSIVE R(_)
R(v) ==
    IF LegalMoves(v) = {} THEN -1
    ELSE IF \E n \in LegalMoves(v) : R(v - n) = -1 THEN 1
    ELSE 0

RECURSIVE CanForceWin(_)
CanForceWin(v) == \E n \in LegalMoves(v) : ~CanForceWin(v - n)

\* C7: rough_outcome() is WIN whenever the player to move has a winning
\* move; it is LOSE or DRAW only when there is none.
C7_WinWheneverWinningMove ==
    Returned("rough_outcome") =>
        /\ (CanForceWin(Self.current_value) => result.num = WIN)
        /\ (result.num \in {LOSE, DRAW} => ~CanForceWin(Self.current_value))

\* C8: two SubtractSquareGameState objects have equal __repr__ values exactly
\* when they agree on p1_turn and on current_value, also when they were
\* constructed independently.
C8_ReprEqualIffFieldsEqual ==
    Returned("__repr__") =>
        \A j \in Ids : IsSubtractSquare(heap[j]) =>
            ((__repr__(heap[j]) = result.str)
                <=> (/\ heap[j].p1_turn = Self.p1_turn
                     /\ heap[j].current_value = Self.current_value))

C8_Witness ==
    /\ Returned("__repr__")
    /\ Len(heap) = 2
    /\ heap[1] = heap[2]
    /\ result.str = "SubtractSquareGameState(p1_turn=True, current_value=10)"

\* C9: no method changes the object it is called on: whatever the calls,
\* every object keeps its p1_turn and current_value, the state make_move
\* returns is another object than self, and two calls of
\* get_possible_moves() in a row on one object return the same list.
C9_NoMutation ==
    [][/\ \A i \in DOMAIN heap : i \in DOMAIN heap' /\ heap'[i] = heap[i]
       /\ (call'.op = "make_move" /\ raised' = NoExc) =>
              /\ result'.obj \notin DOMAIN heap
              /\ result'.obj \in DOMAIN heap'
       /\ (/\ Returned("get_possible_moves")
           /\ call' = call
           /\ raised' = NoExc) => result'.list = result.list]_vars

C9_Witness ==
    /\ Returned("make_move")
    /\ result.obj # call.self
    /\ Self = SubtractSquareGameState(TRUE, 10)
    /\ heap[result.obj] = SubtractSquareGameState(FALSE, 6)

\* The game loop: heap[k + 1] is the state after k accepted moves.
MovesMade == Len(heap) - 1

\* C3: from a state with p1_turn = True, after n valid moves in a row
\* p1_turn is True exactly when n is even; the flag of the current state
\* flips with every applied move and at no other step.
C3_TurnAlternates ==
    /\ [](/\ current_game_state = Len(heap)
          /\ heap[1].p1_turn =>
                \A n \in 0..MovesMade : heap[n + 1].p1_turn <=> (n % 2 = 0))
    /\ [][(heap'[current_game_state'].p1_turn
                # heap[current_game_state].p1_turn)
            <=> (Len(heap') = Len(heap) + 1)]_vars

C3_Witness ==
    /\ heap[1].p1_turn
    /\ MovesMade = 3
    /\ ~heap[current_game_state].p1_turn

C10_LastMoverWins ==
    pc = "done" =>
        LET final == heap[current_game_state]
        IN  /\ LegalMoves(final.current_value) = {}
            /\ (printed = "Player 2 wins!") <=> final.p1_turn
            /\ (printed = "Player 1 wins!") <=> ~final.p1_turn
            /\ MovesMade >= 1 =>
                  LET last == heap[current_game_state - 1]
                  IN  printed = (IF last.p1_turn THEN "Player 1 wins!"
                                 ELSE "Player 2 wins!")

C10_Witness ==
    /\ pc = "done"
    /\ heap = <<SubtractSquareGameState(TRUE, 10),
                SubtractSquareGameState(FALSE, 1),
                SubtractSquareGameState(TRUE, 0)>>
    /\ printed = "Player 2 wins!"

\* C11: get_possible_moves() of a state with current_value < 1, a negative
\* value made by make_move with too large a move included, returns the
\* empty list: the state is terminal and the player to move loses.
C11_EmptyBelowOne ==
    (/\ call.op = "get_possible_moves"
     /\ IsSubtractSquare(Self)
     /\ Self.current_value < 1) =>
        /\ raised = NoExc
        /\ result.list = <<>>

\* The methods of the base class that raise.
Unsupported ==
    {"get_possible_moves", "make_move", "rough_outcome", "__repr__",
     "__str__", "is_valid_move"}

\* C13: on a GameState that is no subclass instance, get_possible_moves,
\* make_move, rough_outcome, __repr__ and __str__ raise NotImplementedError
\* and return nothing, is_valid_move fails the same way, and only
\* get_current_player_name returns a value.
C13_BaseClassRaises ==
    ~IsSubtractSquare(Self) =>
        /\ call.op \in Unsupported =>
              raised = "NotImplementedError" /\ result = NoResult
        /\ call.op = "get_current_player_name" =>
              /\ raised = NoExc
              /\ result.str = (IF Self.p1_turn THEN "p1" ELSE "p2")
        /\ raised = NoExc =>
              call.op \in {"get_current_player_name", "__init__"}

C13_Witness ==
    /\ ~IsSubtractSquare(Self)
    /\ call.op = "is_valid_move"
    /\ raised = "NotImplementedError"

\* C14: rough_outcome() is LOSE exactly when the state has no legal move,
\* which among values >= 0 is current_value = 0, where get_possible_moves()
\* is empty; a state with a legal move never gets LOSE, also when every
\* state it can move to evaluates to DRAW or WIN.
C14_LoseIffNoMove ==
    Returned("rough_outcome") =>
        /\ (result.num = LOSE) <=> (LegalMoves(Self.current_value) = {})
        /\ (result.num = LOSE) <=> (Self.current_value = 0)
        /\ Self.current_value = 0 => get_possible_moves(Self) = <<>>

\* From 2 the only move leads to 1, which evaluates to WIN.
C14_Witness ==
    /\ Returned("rough_outcome")
    /\ Self.current_value = 2
    /\ LegalMoves(2) = {1}
    /\ R(1) = 1
    /\ result.num = DRAW

\* C15: make_move does not reject an invalid move: with a non-square, zero,
\* a negative number or a value above current_value it raises nothing and
\* returns a state with current_value - move and the flag flipped, so a
\* negative value, or one that did not decrease, can come out.
C15_InvalidMoveApplied ==
    (/\ call.op = "make_move"
     /\ IsSubtractSquare(Self)
     /\ call.args[1] \notin LegalMoves(Self.current_value)) =>
        /\ raised = NoExc
        /\ result.obj \in DOMAIN heap
        /\ heap[result.obj].current_value = Self.current_value - call.args[1]
        /\ heap[result.obj].p1_turn = ~Self.p1_turn

C15_Witness ==
    /\ Returned("make_move")
    /\ Self.current_value = 3
    /\ call.args = <<4>>
    /\ heap[result.obj].current_value = -1

\* C18: when rough_outcome() is WIN for a state with current_value >= 0,
\* the player to move can force a win: some legal move leaves the opponent
\* in a position from which the opponent cannot.
C18_WinIsSound ==
    (Returned("rough_outcome") /\ result.num = WIN) =>
        /\ CanForceWin(Self.current_value)
        /\ \E n \in LegalMoves(Self.current_value) :
              ~CanForceWin(Self.current_value - n)

C18_Witness ==
    /\ Returned("rough_outcome")
    /\ result.num = WIN
    /\ Self.current_value = 9

Current == heap[current_game_state]

\* C16: in the game loop an entered move for which is_valid_move is false
\* is never applied: the current state is the same after it, the same
\* player is asked again, and the current state changes only by make_move
\* with a move is_valid_move accepts.
C16_RejectedInputLeavesState ==
    [][/\ (pc' = "loop" /\ ~is_valid_move(Current, move'[1])) =>
              /\ heap' = heap
              /\ current_game_state' = current_game_state
              /\ printed' = "Invalid move. Try again."
       /\ (heap' # heap \/ current_game_state' # current_game_state) =>
              /\ is_valid_move(Current, move'[1])
              /\ heap'[current_game_state'] =
                    SubtractSquareGameState(~Current.p1_turn,
                        Current.current_value - move'[1])]_vars

C16_Witness ==
    /\ pc = "loop"
    /\ printed = "Invalid move. Try again."
    /\ move = <<2>>
    /\ MovesMade = 1
    /\ Current = SubtractSquareGameState(FALSE, 6)

RecOver == call.op = "rough_outcome" /\ stack = <<>>

\* The machine and the operator agree on the value returned.
RecAgrees == (RecOver /\ raised = NoExc) => result.num = rough_outcome(heap[1])

\* C12: rough_outcome() on a state with current_value n >= 0 runs to its
\* end: each recursive call is on a strictly smaller value, at most n calls
\* are nested, and none is cut off before the state without moves is
\* reached.
C12_RecursionBottomsOut ==
    /\ \A k \in 2..Len(stack) :
            heap[stack[k].self].current_value
                < heap[stack[k - 1].self].current_value
    /\ Len(stack) - 1 <= heap[1].current_value
    /\ raised = NoExc
    /\ RecOver => result.num \in {WIN, LOSE, DRAW}

\* What the frames do satisfy: the value falls with every nested call and
\* stays at 0 or above, and the outermost call ends, by a return or by an
\* exception.
RecValueFalls ==
    /\ [](\A k \in 2..Len(stack) :
            /\ heap[stack[k].self].current_value
                   < heap[stack[k - 1].self].current_value
            /\ heap[stack[k].self].current_value >= 0)
    /\ [](Len(stack) - 1 <= heap[1].current_value)
    /\ <>RecOver

====
